---- MODULE Spec2Model ----
(***************************************************************************)
(* Express-Jobly: the Job model (src/models/job.js) over a relational      *)
(* store, with the partial-update builder and the filter compiler.         *)
(*                                                                         *)
(* The store is the jobs table: a bag of rows, since the table has no key  *)
(* of its own in the source and SELECT without ORDER BY returns rows in a  *)
(* store-defined order.  Every Job method is one action; the statements   *)
(* it sends to the store are recorded with its outcome in `last`.          *)
(*                                                                         *)
(* Values.  A title (and a lookup key) is a sequence of one-character      *)
(* strings, so that lower-casing and substring matching are computed.      *)
(* equity is held in hundredths (50 is 0.5); salary is an integer.  A      *)
(* value that comes back from the driver is tagged with its JavaScript     *)
(* type: [t |-> "number", v |-> 50] or [t |-> "string", v |-> 50].         *)
(***************************************************************************)
EXTENDS Integers, Sequences, FiniteSets, Bags, TLC

\* Bound of the model: the number of rows the jobs table may hold.
MaxJobs == 2

\* 1.0 in hundredths: the equity ceiling of Job.create.
EquityOne == 100

\* The salary limit of the filter compiler.
SalaryLimit == 1000000

VARIABLES
    jobs,           \* the jobs table: a bag of [title, salary, equity, company_handle]
    numericAsText,  \* whether the driver returns a NUMERIC column as text
    last,           \* the last call: its name, arguments, statements, error, result
    companies,      \* the companies table: a set of [handle, name, num_employees]
    start,          \* the jobs table as it was before the concurrent calls began
    calls           \* the concurrent calls: for each caller, the call it is in

vars == <<jobs, numericAsText, last, companies, start, calls>>

----------------------------------------------------------------------------
(* JavaScript values and string functions *)

Num(v) == [t |-> "number", v |-> v]
Str(v) == [t |-> "string", v |-> v]
Null == [t |-> "null", v |-> 0]

\* String.prototype.toLowerCase on one character.
LowerChar(c) ==
    CASE c = "J" -> "j"
      [] c = "A" -> "a"
      [] c = "E" -> "e"
      [] c = "C" -> "c"
      [] OTHER -> c

\* title.toLowerCase(), and SQL LOWER(title).
toLowerCase(s) == [i \in 1..Len(s) |-> LowerChar(s[i])]

\* hasEquity.toLowerCase() on the flag strings the model uses.
LowerFlag(s) ==
    CASE s = "TRUE" -> "true"
      [] s = "FALSE" -> "false"
      [] OTHER -> s

\* parseFloat: the number a numeric text denotes; a number is first turned
\* into its text and parsed back.
parseFloat(x) == [t |-> "number", v |-> x.v]

\* The driver's value for a NUMERIC column.
NumericOut(v) == IF numericAsText THEN Str(v) ELSE Num(v)

\* SQL LIKE '%p%' on a lower-cased title: p occurs in s.
Contains(s, p) ==
    \E i \in 0..(Len(s) - Len(p)) :
        \A j \in 1..Len(p) : s[i + j] = p[j]

----------------------------------------------------------------------------
(* Errors and outcomes *)

NoError == [name |-> "none", text |-> "", value |-> <<>>]
BadRequestError(text, value) == [name |-> "BadRequestError", text |-> text, value |-> value]
NotFoundError(text, value) == [name |-> "NotFoundError", text |-> text, value |-> value]
\* A failure of the store itself: neither of the two typed errors.
StoreError(text, value) == [name |-> "Error", text |-> text, value |-> value]

Undefined == [t |-> "undefined", v |-> 0]

\* What a call leaves behind: the table, the error thrown (or none), the
\* value returned, and the statements sent to the store, in order.
Outcome(store, err, ret, stmts) ==
    [jobs |-> store, err |-> err, ret |-> ret, stmts |-> stmts]

----------------------------------------------------------------------------
(* The store *)

\* Rows of the table whose LOWER(title) equals the bound parameter.
RowsWithKey(store, p) == {r \in BagToSet(store) : toLowerCase(r.title) = p}

\* SELECT title, salary, equity, company_handle AS "companyHandle".
Returning(r) ==
    [title |-> r.title, salary |-> r.salary,
     equity |-> NumericOut(r.equity), companyHandle |-> r.company_handle]

\* The part of the table with the rows of set S only / without them.
Restrict(store, S) == [r \in (BagToSet(store) \cap S) |-> store[r]]
Without(store, S) == [r \in (BagToSet(store) \ S) |-> store[r]]

----------------------------------------------------------------------------
(* helpers/sql: the partial-update builder *)

\* A mapping in insertion order is a sequence of <<key, value>> pairs with
\* distinct keys.
ObjectKeys(obj) == [i \in 1..Len(obj) |-> obj[i][1]]
ObjectValues(obj) == [i \in 1..Len(obj) |-> obj[i][2]]

\* The column of a field: the override if the map has one, else the field.
FieldMapper(colName, jsToSql) ==
    IF colName \in DOMAIN jsToSql THEN jsToSql[colName] ELSE colName

\* keys.map((colName, idx) => `"${column}"=$${idx + 1}`), clause by clause.
RECURSIVE MapCols(_, _, _)
MapCols(keys, jsToSql, idx) ==
    IF keys = <<>> THEN <<>>
    ELSE <<[col |-> FieldMapper(Head(keys), jsToSql), ph |-> idx + 1]>>
         \o MapCols(Tail(keys), jsToSql, idx + 1)

sqlForPartialUpdate(dataToUpdate, jsToSql) ==
    LET keys == ObjectKeys(dataToUpdate)
    IN  IF Len(keys) = 0
        THEN [err |-> BadRequestError("No data", <<>>), setCols |-> <<>>, values |-> <<>>]
        ELSE [err |-> NoError,
              setCols |-> MapCols(keys, jsToSql, 0),
              values |-> ObjectValues(dataToUpdate)]

----------------------------------------------------------------------------
(* Job.create *)

\* The SELECT of the duplicate check.
DuplicateCheckSql(title) ==
    [kind |-> "SELECT", where |-> 1, params |-> <<toLowerCase(title)>>]

\* The duplicate check comparing the title as given, case and all.
DuplicateCheckRowsExact(store, title) ==
    {r \in BagToSet(store) : r.title = title}

DuplicateCheckRows(store, title) ==
    LET q == DuplicateCheckSql(title) IN RowsWithKey(store, q.params[q.where])

\* The checks without the one for a duplicate.
CreateChecksNoDuplicate(x, duplicateRows) ==
    IF ~(x.equity <= EquityOne)
    THEN BadRequestError("Equity value for job is invalid (<= 1.0): ", x.equity)
    ELSE IF ~(x.salary >= 0)
    THEN BadRequestError("Salary value for job is invalid (>= 0): ", x.salary)
    ELSE NoError

\* The checks without the one on salary.
CreateChecksNoSalary(x, duplicateRows) ==
    IF ~(x.equity <= EquityOne)
    THEN BadRequestError("Equity value for job is invalid (<= 1.0): ", x.equity)
    ELSE IF duplicateRows # {}
    THEN BadRequestError("Duplicate job: ", x.title)
    ELSE NoError

\* The three checks, in the order the code makes them.
CreateChecks(x, duplicateRows) ==
    LET equityCheck == x.equity <= EquityOne
        salaryCheck == x.salary >= 0
    IN  IF ~equityCheck
        THEN BadRequestError("Equity value for job is invalid (<= 1.0): ", x.equity)
        ELSE IF ~salaryCheck
        THEN BadRequestError("Salary value for job is invalid (>= 0): ", x.salary)
        ELSE IF duplicateRows # {}
        THEN BadRequestError("Duplicate job: ", x.title)
        ELSE NoError

InsertSql(x) ==
    [kind |-> "INSERT", where |-> 0,
     params |-> <<x.title, x.salary, x.equity, x.companyHandle>>]

\* The row an INSERT statement adds.
InsertedRow(q) ==
    [title |-> q.params[1], salary |-> q.params[2],
     equity |-> q.params[3], company_handle |-> q.params[4]]

\* Job.create from its first throw on: the checks on the rows the duplicate
\* SELECT returned, then the INSERT.  Between the SELECT and this part the
\* call awaits the store, so `store` is the table as it is after the wait.
createResume(store, x, duplicateCheck) ==
    LET err == CreateChecks(x, duplicateCheck)
        q == InsertSql(x)
        job == Returning(InsertedRow(q))
    IN  IF err.name # "none"
        THEN {Outcome(store, err, Undefined, <<DuplicateCheckSql(x.title)>>)}
        ELSE {Outcome(store (+) SetToBag({InsertedRow(q)}), NoError,
                      [job EXCEPT !.equity = parseFloat(job.equity)],
                      <<DuplicateCheckSql(x.title), q>>)}

\* Job.create run without another call in between its two statements.
create(store, x) ==
    createResume(store, x, DuplicateCheckRows(store, x.title))

----------------------------------------------------------------------------
(* Job.get *)

GetSql(title) == [kind |-> "SELECT", where |-> 1, params |-> <<toLowerCase(title)>>]

\* rows[0] of a SELECT without ORDER BY is any one of the matching rows.
get(store, title) ==
    LET q == GetSql(title)
        rows == RowsWithKey(store, q.params[q.where])
    IN  IF rows = {}
        THEN {Outcome(store, NotFoundError("No job: ", title), Undefined, <<q>>)}
        ELSE {Outcome(store, NoError, Returning(r), <<q>>) : r \in rows}

----------------------------------------------------------------------------
(* Job.update *)

\* Job.update with the override map left empty.
JobJsToSqlEmpty == <<>>

\* The override map Job.update passes to the builder.
JobJsToSql == [companyHandle |-> "company_handle"]

Columns == {"title", "salary", "equity", "company_handle"}

\* An UPDATE that applies the first SET clause and drops the others.
SetRowFirstOnly(r, q) ==
    [c \in Columns |->
        IF q.setCols[1].col = c THEN q.params[q.setCols[1].ph] ELSE r[c]]

\* The row an UPDATE's SET clauses make of row r.
SetRow(r, q) ==
    [c \in Columns |->
        IF \E i \in 1..Len(q.setCols) : q.setCols[i].col = c
        THEN q.params[q.setCols[CHOOSE i \in 1..Len(q.setCols) : q.setCols[i].col = c].ph]
        ELSE r[c]]

\* The statement with the key bound first: WHERE LOWER(title) = $1.
UpdateSqlKeyFirst(built, title) ==
    [kind |-> "UPDATE", setCols |-> built.setCols,
     where |-> 1,
     params |-> <<toLowerCase(title)>> \o built.values]

UpdateSql(built, title) ==
    [kind |-> "UPDATE", setCols |-> built.setCols,
     where |-> Len(built.values) + 1,
     params |-> built.values \o <<toLowerCase(title)>>]

\* Job.update without its `if (!job) throw`: no row updated is no error.
UpdateOutcomeNoThrow(store, title, built) ==
    LET q == UpdateSql(built, title)
        hit == RowsWithKey(store, q.params[q.where])
        Set(r) == SetRow(r, q)
        after == Without(store, hit) (+) BagOfAll(Set, Restrict(store, hit))
    IN  IF hit = {}
        THEN {Outcome(store, NoError, Undefined, <<q>>)}
        ELSE {Outcome(after, NoError, Returning(Set(r)), <<q>>) : r \in hit}

\* The UPDATE ... RETURNING statement and what the code makes of its rows;
\* rows[0] is any one of the rows updated.
UpdateOutcome(store, title, built) ==
    LET q == UpdateSql(built, title)
        hit == RowsWithKey(store, q.params[q.where])
        Set(r) == SetRow(r, q)
        after == Without(store, hit) (+) BagOfAll(Set, Restrict(store, hit))
    IN  IF \E i \in 1..Len(q.setCols) : q.setCols[i].col \notin Columns
        THEN {Outcome(store, StoreError("column does not exist", <<>>), Undefined, <<q>>)}
        ELSE IF hit = {}
        THEN {Outcome(store, NotFoundError("No job: ", title), Undefined, <<q>>)}
        ELSE {Outcome(after, NoError, Returning(Set(r)), <<q>>) : r \in hit}

\* Job.update going on to its statement whatever the builder signalled.
updateDespiteBuilder(store, title, data) ==
    UpdateOutcome(store, title, sqlForPartialUpdate(data, JobJsToSql))

update(store, title, data) ==
    LET built == sqlForPartialUpdate(data, JobJsToSql)
    IN  IF built.err.name # "none"
        THEN {Outcome(store, built.err, Undefined, <<>>)}
        ELSE UpdateOutcome(store, title, built)

----------------------------------------------------------------------------
(* Job.remove *)

RemoveSql(title) == [kind |-> "DELETE", where |-> 1, params |-> <<toLowerCase(title)>>]

\* Job.remove with WHERE title = $1: the title as given, case and all.
removeExactTitle(store, title) ==
    LET q == [kind |-> "DELETE", where |-> 1, params |-> <<title>>]
        hit == {r \in BagToSet(store) : r.title = q.params[q.where]}
    IN  IF hit = {}
        THEN {Outcome(store, NotFoundError("No job: ", title), Undefined, <<q>>)}
        ELSE {Outcome(Without(store, hit), NoError, Undefined, <<q>>)}

\* Job.remove without its `if (!job) throw`.
removeNoThrow(store, title) ==
    LET q == RemoveSql(title)
        hit == RowsWithKey(store, q.params[q.where])
    IN  {Outcome(Without(store, hit), NoError, Undefined, <<q>>)}

remove(store, title) ==
    LET q == RemoveSql(title)
        hit == RowsWithKey(store, q.params[q.where])
    IN  IF hit = {}
        THEN {Outcome(store, NotFoundError("No job: ", title), Undefined, <<q>>)}
        ELSE {Outcome(Without(store, hit), NoError, Undefined, <<q>>)}

----------------------------------------------------------------------------
(* Job._createWhereSqlQueryFilters and Job.findAll *)

\* A default parameter: the default stands in for an argument not passed.
Default(arg, dflt) == IF arg.t = "undefined" THEN dflt ELSE arg

\* JavaScript's ToNumber, as the comparison minSalary >= 1000000 applies it.
ToNumber(x) == IF x.t = "null" THEN 0 ELSE x.v

\* JavaScript's truthiness, as if (minSalary) applies it: null and the
\* number 0 are falsy, a non-empty string (also "0") is truthy.
Truthy(x) ==
    CASE x.t = "null" -> FALSE
      [] x.t = "number" -> x.v # 0
      [] OTHER -> TRUE

\* The predicates pushed to `queries`, in order; the WHERE text joins them
\* with AND, and no predicate at all gives the empty text.
_createWhereSqlQueryFilters(title, minSalary, hasEquity) ==
    LET titleSql == [col |-> "title", op |-> "LIKE", v |-> toLowerCase(title.v)]
        minSalarySql == [col |-> "salary", op |-> ">=", v |-> ToNumber(minSalary)]
        hasEquitySql == [col |-> "equity", op |-> ">", v |-> 0]
        hasNoEquitySql == [col |-> "equity", op |-> "=", v |-> 0]
        allEquitySql == [col |-> "equity", op |-> ">=", v |-> 0]
        q1 == IF Len(title.v) > 0 THEN <<titleSql>> ELSE <<>>
        q2 == IF Truthy(minSalary) THEN <<minSalarySql>> ELSE <<>>
        q3 == IF Len(hasEquity.v) = 0 THEN <<allEquitySql>> ELSE <<>>
        q4 == IF LowerFlag(hasEquity.v) = "true" THEN <<hasEquitySql>> ELSE <<>>
        q5 == IF LowerFlag(hasEquity.v) = "false" THEN <<hasNoEquitySql>> ELSE <<>>
    IN  IF ToNumber(minSalary) >= SalaryLimit
        THEN [err |-> BadRequestError("Salary exceeds salary limit: Less than $1,000,000", <<>>),
              queries |-> <<>>]
        ELSE [err |-> NoError, queries |-> q1 \o q2 \o q3 \o q4 \o q5]

\* The store's reading of one predicate on one row.
Satisfies(r, p) ==
    CASE p.op = "LIKE" -> Contains(toLowerCase(r[p.col]), p.v)
      [] p.op = ">=" -> r[p.col] >= p.v
      [] p.op = ">" -> r[p.col] > p.v
      [] OTHER -> r[p.col] = p.v

FindAllSql(queries) == [kind |-> "SELECT", where |-> 0, params |-> <<>>, filters |-> queries]

\* Job.findAll with its predicates joined by OR.
findAllAny(store, title, minSalary, hasEquity) ==
    LET compiled == _createWhereSqlQueryFilters(
                        Default(title, Str(<<>>)),
                        Default(minSalary, Null),
                        Default(hasEquity, Str("")))
        q == FindAllSql(compiled.queries)
        hit == {r \in BagToSet(store) :
                   \/ Len(q.filters) = 0
                   \/ \E i \in 1..Len(q.filters) : Satisfies(r, q.filters[i])}
    IN  IF compiled.err.name # "none"
        THEN {Outcome(store, compiled.err, Undefined, <<>>)}
        ELSE {Outcome(store, NoError, BagOfAll(Returning, Restrict(store, hit)), <<q>>)}

\* The rows returned are a bag: the order is the store's.
findAll(store, title, minSalary, hasEquity) ==
    LET compiled == _createWhereSqlQueryFilters(
                        Default(title, Str(<<>>)),
                        Default(minSalary, Null),
                        Default(hasEquity, Str("")))
        q == FindAllSql(compiled.queries)
        hit == {r \in BagToSet(store) :
                   \A i \in 1..Len(q.filters) : Satisfies(r, q.filters[i])}
    IN  IF compiled.err.name # "none"
        THEN {Outcome(store, compiled.err, Undefined, <<>>)}
        ELSE {Outcome(store, NoError, BagOfAll(Returning, Restrict(store, hit)), <<q>>)}

----------------------------------------------------------------------------
(* routes/jobs *)

\* The error the auth middleware passes to next().
UnauthorizedError(text, value) == [name |-> "UnauthorizedError", text |-> text, value |-> value]

\* The bearer of a request: no token, the token of user u1, the admin token.
Tokens == {"none", "user", "admin"}

\* Whether a middleware lets the request of this bearer through.
Passes(guard, token) ==
    CASE guard = "ensureLoggedIn" -> token # "none"
      [] guard = "ensureAdmin" -> token = "admin"
      [] OTHER -> TRUE

\* The status the error handler answers with; ok is the handler's own.
StatusOf(err, ok) ==
    CASE err.name = "none" -> ok
      [] err.name = "BadRequestError" -> 400
      [] err.name = "UnauthorizedError" -> 401
      [] err.name = "NotFoundError" -> 404
      [] OTHER -> 500

\* The response to a request whose handling left outcome o.
Respond(o, ok) ==
    [o EXCEPT !.ret = [status |-> StatusOf(o.err, ok), body |-> o.ret]]

\* POST /jobs behind ensureLoggedIn alone.
PostGuardsLoginOnly == <<"ensureLoggedIn">>

\* The middleware of each route, in order.
PostGuards == <<"ensureLoggedIn", "ensureAdmin">>
GetGuards == <<>>
PatchGuards == <<"ensureLoggedIn", "ensureAdmin">>
DeleteGuards == <<"ensureLoggedIn", "ensureAdmin">>

\* A route: its middleware in order, each ending the request with its
\* error if it does not pass; then the handler, which throws on a body the
\* schema does not accept and else calls the model.
Route(store, guards, token, valid, called, ok) ==
    IF \E i \in 1..Len(guards) : ~Passes(guards[i], token)
    THEN {Respond(Outcome(store, UnauthorizedError("Unauthorized", <<>>), Undefined, <<>>), ok)}
    ELSE IF ~valid
    THEN {Respond(Outcome(store, BadRequestError("schema", <<>>), Undefined, <<>>), ok)}
    ELSE {Respond(o, ok) : o \in called}

postJobs(store, token, valid, body) ==
    Route(store, PostGuards, token, valid, create(store, body), 201)

getJobs(store, token, query) ==
    Route(store, GetGuards, token, TRUE,
          findAll(store, query.title, query.minSalary, query.hasEquity), 200)

getJob(store, token, title) ==
    Route(store, GetGuards, token, TRUE, get(store, title), 200)

patchJob(store, token, valid, title, body) ==
    Route(store, PatchGuards, token, valid, update(store, title, body), 200)

deleteJob(store, token, title) ==
    Route(store, DeleteGuards, token, TRUE, remove(store, title), 200)

----------------------------------------------------------------------------
(* Company.findAll and GET /companies *)

\* The predicates of the company filters, in order: name, lower bound,
\* upper bound, each only if given.
companyPredicates(name, minEmployees, maxEmployees) ==
    LET q1 == IF name.t # "undefined" /\ Len(name.v) > 0
              THEN <<[col |-> "name", op |-> "LIKE", v |-> toLowerCase(name.v)]>> ELSE <<>>
        q2 == IF minEmployees.t # "undefined"
              THEN <<[col |-> "num_employees", op |-> ">=", v |-> minEmployees.v]>> ELSE <<>>
        q3 == IF maxEmployees.t # "undefined"
              THEN <<[col |-> "num_employees", op |-> "<=", v |-> maxEmployees.v]>> ELSE <<>>
    IN  [err |-> NoError, queries |-> q1 \o q2 \o q3]

\* The filter compiler without its check of the range.
companyFiltersUnchecked(name, minEmployees, maxEmployees) ==
    companyPredicates(name, minEmployees, maxEmployees)

\* The filter compiler for companies: min > max is rejected with both
\* bounds in the message, before any predicate is made.
companyFilters(name, minEmployees, maxEmployees) ==
    IF /\ minEmployees.t # "undefined"
       /\ maxEmployees.t # "undefined"
       /\ minEmployees.v > maxEmployees.v
    THEN [err |-> BadRequestError("Min value is greater than Max value: Min:, Max:",
                                  <<minEmployees.v, maxEmployees.v>>),
          queries |-> <<>>]
    ELSE companyPredicates(name, minEmployees, maxEmployees)

\* The store's reading of one predicate on one company.
CompanySatisfies(c, p) ==
    CASE p.op = "LIKE" -> Contains(toLowerCase(c[p.col]), p.v)
      [] p.op = ">=" -> c[p.col] >= p.v
      [] OTHER -> c[p.col] <= p.v

companyFindAll(store, name, minEmployees, maxEmployees) ==
    LET compiled == companyFilters(name, minEmployees, maxEmployees)
        q == FindAllSql(compiled.queries)
        hit == {c \in store : \A i \in 1..Len(q.filters) : CompanySatisfies(c, q.filters[i])}
    IN  IF compiled.err.name # "none"
        THEN {Outcome(EmptyBag, compiled.err, Undefined, <<>>)}
        ELSE {Outcome(EmptyBag, NoError, hit, <<q>>)}

getCompanies(store, token, query) ==
    Route(EmptyBag, GetGuards, token, TRUE,
          companyFindAll(store, query.name, query.minEmployees, query.maxEmployees), 200)

----------------------------------------------------------------------------
(* Inputs *)

TitleJa == <<"j", "a">>
TitleJA == <<"J", "A">>
TitleE == <<"e">>

Keys == {TitleJa, TitleJA, TitleE}

NewJob(title, salary, equity, companyHandle) ==
    [title |-> title, salary |-> salary, equity |-> equity, companyHandle |-> companyHandle]

\* Jobs given to Job.create: valid ones, the same key in another case, a
\* negative equity, and the invalid salary and equity.
CreateInputs ==
    { NewJob(TitleJa, 2, 50, "c1"),
      NewJob(TitleJA, 0, 0, "c1"),
      NewJob(TitleE, 0, -50, "c1"),
      NewJob(TitleE, -1, 50, "c1"),
      NewJob(TitleJa, 2, 150, "c1"),
      NewJob(TitleE, -1, 150, "c1") }

\* Update mappings given to Job.update: the empty one, one field, two fields.
UpdateInputs ==
    { <<>>,
      << <<"salary", -1>> >>,
      << <<"title", TitleE>> >>,
      << <<"companyHandle", "c2">>, <<"salary", 0>> >> }

\* Mappings and override maps given to the builder directly.
BuilderInputs ==
    UpdateInputs \cup
    { << <<"salary", 0>>, <<"companyHandle", "c2">> >>,
      << <<"equity", 50>>, <<"companyHandle", "c2">>, <<"title", TitleE>> >>,
      << <<"title", TitleJA>>, <<"salary", 2>>, <<"equity", 0>>, <<"companyHandle", "c1">> >> }

OverrideMaps ==
    { <<>>,
      [companyHandle |-> "company_handle"],
      [title |-> "job_title", salary |-> "pay"] }

\* An argument not passed (v only keeps the values of one set comparable).
Absent(v) == [t |-> "undefined", v |-> v]

FindArgs(title, minSalary, hasEquity) ==
    [title |-> title, minSalary |-> minSalary, hasEquity |-> hasEquity]

\* Filters given to Job.findAll: every pairing of a title, a lower bound
\* and a flag, and each lower bound on its own.
FindInputs ==
    { FindArgs(t, m, h) :
        t \in {Absent(<<>>), Str(<<"A">>)},
        m \in {Absent(0), Num(1)},
        h \in {Absent(""), Str(""), Str("true"), Str("false"), Str("TRUE"), Str("yes")} }
    \cup
    { FindArgs(Absent(<<>>), m, Absent("")) :
        m \in {Num(0), Num(2), Str(0), Num(SalaryLimit), Num(SalaryLimit + 1)} }

\* The jobs of the route tests: job1, job2 and Engineer.
TitleJob1 == <<"j", "o", "b", "1">>
TitleJob2 == <<"j", "o", "b", "2">>
TitleEngineer == <<"E", "n", "g", "i", "n", "e", "e", "r">>

Job1 == InsertedRow(InsertSql(NewJob(TitleJob1, 50000, 0, "c1")))
Job2 == InsertedRow(InsertSql(NewJob(TitleJob2, 175000, 100, "c2")))
Engineer == InsertedRow(InsertSql(NewJob(TitleEngineer, 200000, 75, "c3")))

ScenarioJobs == SetToBag({Job1, Job2, Engineer})

\* Keys of these jobs, as stored and in another case.
ScenarioKeys == {TitleJob1, <<"J", "o", "b", "2">>, <<"e", "n", "g", "i", "n", "e", "e", "r">>}

\* Changes made to these jobs: a negative salary, a title that holds "job".
ScenarioUpdates ==
    { << <<"salary", -1>> >>,
      << <<"title", <<"J", "o", "b", "s">> >> >> }

\* Filters given to Job.findAll on these jobs; the route passes the lower
\* bound as the text of the query string.
ScenarioFindInputs ==
    { FindArgs(t, m, h) :
        t \in {Absent(<<>>), Str(<<"j", "o", "b">>), Str(<<"E">>)},
        m \in {Absent(0), Str(50001), Num(175001), Num(0)},
        h \in {Absent(""), Str(""), Str("true"), Str("false")} }

\* Requests to the routes: bodies for POST and PATCH, query strings for GET.
RouteBodies ==
    { NewJob(TitleJa, 2, 50, "c1"),
      NewJob(TitleE, 0, 0, "c1"),
      NewJob(TitleE, -1, 150, "c1") }

RoutePatches ==
    { <<>>,
      << <<"salary", 0>> >> }

RouteQueries ==
    { FindArgs(Absent(<<>>), Absent(0), Absent("")),
      FindArgs(Str(<<"A">>), Str(1), Str("true")),
      FindArgs(Absent(<<>>), Str(SalaryLimit), Absent("")) }

\* The companies of the route tests: c1, c2 and c3 with 1, 2 and 3 employees.
Company(handle, name, numEmployees) ==
    [handle |-> handle, name |-> name, num_employees |-> numEmployees]

Companies ==
    { Company("c1", <<"C", "1">>, 1),
      Company("c2", <<"C", "2">>, 2),
      Company("c3", <<"C", "3">>, 3) }

\* Query strings of GET /companies: a name or none, and each bound absent
\* or one of the numbers the route tests use.
CompanyBounds == {Absent(0), Num(-4), Num(0), Num(1), Num(2), Num(3), Num(4)}

CompanyQueries ==
    { [name |-> n, minEmployees |-> lo, maxEmployees |-> hi] :
        n \in {Absent(<<>>), Str(<<"C">>), Str(<<"2">>)},
        lo \in CompanyBounds,
        hi \in CompanyBounds }

\* The callers of the calls that run concurrently: two of them.
Procs == {"p", "q"}

\* A call in flight: its name and arguments; where it is (idle before its
\* first statement, selected after the duplicate SELECT of create, queried
\* after the one statement of update and remove, done once it has returned
\* or thrown); the rows its SELECT returned; the callers that had begun
\* before it did, and those whose call was in flight at some time while
\* this one was; and its outcome.
InFlight(op, args, pc, rows, after, overlap, out) ==
    [op |-> op, args |-> args, pc |-> pc, rows |-> rows,
     after |-> after, overlap |-> overlap, out |-> out]

\* A caller that has not called yet.
NotCalled ==
    InFlight("none", <<>>, "idle", {}, {}, {}, Outcome(EmptyBag, NoError, Undefined, <<>>))

\* The tables the concurrent calls begin on, and their arguments.
RaceStores ==
    { EmptyBag,
      SetToBag({InsertedRow(InsertSql(NewJob(TitleJa, 2, 50, "c1")))}),
      SetToBag({InsertedRow(InsertSql(NewJob(TitleJa, 2, 50, "c1"))),
                InsertedRow(InsertSql(NewJob(TitleE, 0, 0, "c1")))}) }

RaceCreates ==
    { NewJob(TitleJa, 2, 50, "c1"),
      NewJob(TitleJA, 0, 0, "c1"),
      NewJob(TitleE, 0, 0, "c1") }

RaceKeys == {TitleJa, TitleJA}

RaceUpdates ==
    { <<>>,
      << <<"salary", 0>> >>,
      << <<"title", TitleE>> >>,
      << <<"title", TitleJA>> >> }

----------------------------------------------------------------------------
(* The state machine *)

Call(op, args, o) ==
    [op |-> op, args |-> args, err |-> o.err, ret |-> o.ret, stmts |-> o.stmts]

NoCall == Call("init", <<>>, Outcome(EmptyBag, NoError, Undefined, <<>>))

\* Nothing runs concurrently, and the companies are the ones given.
Sequential ==
    /\ companies = Companies
    /\ start = EmptyBag
    /\ calls = [p \in Procs |-> NotCalled]

Init ==
    /\ jobs = EmptyBag
    /\ numericAsText \in BOOLEAN
    /\ last = NoCall
    /\ Sequential

Create ==
    \E x \in CreateInputs : \E o \in create(jobs, x) :
        /\ BagCardinality(o.jobs) <= MaxJobs
        /\ jobs' = o.jobs
        /\ last' = Call("create", [data |-> x], o)
        /\ UNCHANGED <<numericAsText, companies, start, calls>>

Get ==
    \E title \in Keys : \E o \in get(jobs, title) :
        /\ jobs' = o.jobs
        /\ last' = Call("get", [title |-> title], o)
        /\ UNCHANGED <<numericAsText, companies, start, calls>>

Update ==
    \E title \in Keys, data \in UpdateInputs : \E o \in update(jobs, title, data) :
        /\ jobs' = o.jobs
        /\ last' = Call("update", [title |-> title, data |-> data], o)
        /\ UNCHANGED <<numericAsText, companies, start, calls>>

Remove ==
    \E title \in Keys : \E o \in remove(jobs, title) :
        /\ jobs' = o.jobs
        /\ last' = Call("remove", [title |-> title], o)
        /\ UNCHANGED <<numericAsText, companies, start, calls>>

FindAll ==
    \E a \in FindInputs : \E o \in findAll(jobs, a.title, a.minSalary, a.hasEquity) :
        /\ jobs' = o.jobs
        /\ last' = Call("findAll", a, o)
        /\ UNCHANGED <<numericAsText, companies, start, calls>>

\* The builder called on its own, as its unit test calls it.
SqlForPartialUpdate ==
    \E dataToUpdate \in BuilderInputs, jsToSql \in OverrideMaps :
        LET built == sqlForPartialUpdate(dataToUpdate, jsToSql)
        IN  /\ last' = Call("sqlForPartialUpdate",
                            [dataToUpdate |-> dataToUpdate, jsToSql |-> jsToSql],
                            Outcome(jobs, built.err,
                                    [setCols |-> built.setCols, values |-> built.values], <<>>))
            /\ UNCHANGED <<jobs, numericAsText, companies, start, calls>>

\* The Job model's create, get, update and remove.
Next ==
    \/ Create
    \/ Get
    \/ Update
    \/ Remove

Spec == Init /\ [][Next]_vars

\* The writes together with the filtered read.
NextFind ==
    \/ Create
    \/ Update
    \/ Remove
    \/ FindAll

SpecFind == Init /\ [][NextFind]_vars

\* The filtered read on the jobs of the route tests, and on what updates and
\* removes make of them.
InitScenario ==
    /\ jobs = ScenarioJobs
    /\ numericAsText \in BOOLEAN
    /\ last = NoCall
    /\ Sequential

ScenarioFindAll ==
    \E a \in ScenarioFindInputs : \E o \in findAll(jobs, a.title, a.minSalary, a.hasEquity) :
        /\ jobs' = o.jobs
        /\ last' = Call("findAll", a, o)
        /\ UNCHANGED <<numericAsText, companies, start, calls>>

ScenarioUpdate ==
    \E title \in ScenarioKeys, data \in ScenarioUpdates : \E o \in update(jobs, title, data) :
        /\ jobs' = o.jobs
        /\ last' = Call("update", [title |-> title, data |-> data], o)
        /\ UNCHANGED <<numericAsText, companies, start, calls>>

ScenarioRemove ==
    \E title \in ScenarioKeys : \E o \in remove(jobs, title) :
        /\ jobs' = o.jobs
        /\ last' = Call("remove", [title |-> title], o)
        /\ UNCHANGED <<numericAsText, companies, start, calls>>

NextScenario ==
    \/ ScenarioFindAll
    \/ ScenarioUpdate
    \/ ScenarioRemove

SpecScenario == InitScenario /\ [][NextScenario]_vars

\* The routes of /jobs.
Request(route, token, valid, params, body) ==
    [route |-> route, token |-> token, valid |-> valid, params |-> params, body |-> body]

PostJobs ==
    \E token \in Tokens, valid \in BOOLEAN, body \in RouteBodies :
        \E o \in postJobs(jobs, token, valid, body) :
            /\ BagCardinality(o.jobs) <= MaxJobs
            /\ jobs' = o.jobs
            /\ last' = Call("POST /jobs", Request("POST /jobs", token, valid, <<>>, body), o)
            /\ UNCHANGED <<numericAsText, companies, start, calls>>

GetJobs ==
    \E token \in Tokens, query \in RouteQueries :
        \E o \in getJobs(jobs, token, query) :
            /\ jobs' = o.jobs
            /\ last' = Call("GET /jobs", Request("GET /jobs", token, TRUE, <<>>, query), o)
            /\ UNCHANGED <<numericAsText, companies, start, calls>>

GetJob ==
    \E token \in Tokens, title \in Keys :
        \E o \in getJob(jobs, token, title) :
            /\ jobs' = o.jobs
            /\ last' = Call("GET /jobs/:title", Request("GET /jobs/:title", token, TRUE, title, <<>>), o)
            /\ UNCHANGED <<numericAsText, companies, start, calls>>

PatchJob ==
    \E token \in Tokens, valid \in BOOLEAN, title \in Keys, body \in RoutePatches :
        \E o \in patchJob(jobs, token, valid, title, body) :
            /\ jobs' = o.jobs
            /\ last' = Call("PATCH /jobs/:title", Request("PATCH /jobs/:title", token, valid, title, body), o)
            /\ UNCHANGED <<numericAsText, companies, start, calls>>

DeleteJob ==
    \E token \in Tokens, title \in Keys :
        \E o \in deleteJob(jobs, token, title) :
            /\ jobs' = o.jobs
            /\ last' = Call("DELETE /jobs/:title", Request("DELETE /jobs/:title", token, TRUE, title, <<>>), o)
            /\ UNCHANGED <<numericAsText, companies, start, calls>>

NextRoutes ==
    \/ PostJobs
    \/ GetJobs
    \/ GetJob
    \/ PatchJob
    \/ DeleteJob

SpecRoutes == Init /\ [][NextRoutes]_vars

\* GET /companies on any part of the companies of the route tests.
InitCompany ==
    /\ jobs = EmptyBag
    /\ numericAsText \in BOOLEAN
    /\ last = NoCall
    /\ companies \in SUBSET Companies
    /\ start = EmptyBag
    /\ calls = [p \in Procs |-> NotCalled]

GetCompanies ==
    \E query \in CompanyQueries :
        \E o \in getCompanies(companies, "none", query) :
            /\ last' = Call("GET /companies", Request("GET /companies", "none", TRUE, <<>>, query), o)
            /\ UNCHANGED <<jobs, numericAsText, companies, start, calls>>

NextCompany == GetCompanies

SpecCompany == InitCompany /\ [][NextCompany]_vars

\* Two calls of the Job model in flight at once.  Each statement is one
\* step of the store; a call waits for its statement and goes on later, so
\* the other call's statements may come in between.
InitRace ==
    /\ jobs \in RaceStores
    /\ numericAsText \in BOOLEAN
    /\ last = NoCall
    /\ companies = Companies
    /\ start = jobs
    /\ calls = [p \in Procs |-> NotCalled]

\* The callers that have begun, and those whose call is in flight.
Begun == {p \in Procs : calls[p].pc # "idle"}
Waiting == {p \in Procs : calls[p].pc \in {"selected", "queried"}}

\* Caller p begins call c: the calls in flight now overlap with it.
Begin(p, c) ==
    [q \in Procs |->
        IF q = p THEN c
        ELSE IF q \in Waiting THEN [calls[q] EXCEPT !.overlap = @ \cup {p}]
        ELSE calls[q]]

\* Job.create up to its first await: the duplicate SELECT.
RaceCreateSelect(p) ==
    /\ calls[p].pc = "idle"
    /\ \E x \in RaceCreates :
          calls' = Begin(p, InFlight("create", [data |-> x], "selected",
                                     DuplicateCheckRows(jobs, x.title),
                                     Begun, Waiting, NotCalled.out))
    /\ UNCHANGED <<jobs, numericAsText, last, companies, start>>

\* Job.create from the rows of its SELECT on: the throws, or the INSERT.
RaceCreateInsert(p) ==
    /\ calls[p].pc = "selected"
    /\ \E o \in createResume(jobs, calls[p].args.data, calls[p].rows) :
          /\ BagCardinality(o.jobs) <= MaxJobs
          /\ jobs' = o.jobs
          /\ calls' = [calls EXCEPT ![p].pc = "done", ![p].out = o]
    /\ UNCHANGED <<numericAsText, last, companies, start>>

\* Job.update up to its await: the builder, which may throw, and the UPDATE.
RaceUpdate(p) ==
    /\ calls[p].pc = "idle"
    /\ \E title \in RaceKeys, data \in RaceUpdates : \E o \in update(jobs, title, data) :
          /\ jobs' = o.jobs
          /\ calls' = Begin(p, InFlight("update", [title |-> title, data |-> data],
                                        IF o.stmts = <<>> THEN "done" ELSE "queried",
                                        {}, Begun, Waiting, o))
    /\ UNCHANGED <<numericAsText, last, companies, start>>

\* Job.remove up to its await: the DELETE.
RaceRemove(p) ==
    /\ calls[p].pc = "idle"
    /\ \E title \in RaceKeys : \E o \in remove(jobs, title) :
          /\ jobs' = o.jobs
          /\ calls' = Begin(p, InFlight("remove", [title |-> title], "queried",
                                        {}, Begun, Waiting, o))
    /\ UNCHANGED <<numericAsText, last, companies, start>>

\* Job.update and Job.remove after their await: throw on no row, or return.
RaceSettle(p) ==
    /\ calls[p].pc = "queried"
    /\ calls' = [calls EXCEPT ![p].pc = "done"]
    /\ UNCHANGED <<jobs, numericAsText, last, companies, start>>

NextRace ==
    \/ \E p \in Procs : RaceCreateSelect(p)
    \/ \E p \in Procs : RaceCreateInsert(p)
    \/ \E p \in Procs : RaceUpdate(p)
    \/ \E p \in Procs : RaceRemove(p)
    \/ \E p \in Procs : RaceSettle(p)

SpecRace == InitRace /\ [][NextRace]_vars

\* The builder on its own and under Job.update, on a table holding one job.
InitBuilder ==
    /\ jobs = SetToBag({InsertedRow(InsertSql(NewJob(TitleJa, 2, 50, "c1")))})
    /\ numericAsText \in BOOLEAN
    /\ last = NoCall
    /\ Sequential

NextBuilder ==
    \/ SqlForPartialUpdate
    \/ Update

SpecBuilder == InitBuilder /\ [][NextBuilder]_vars

----------------------------------------------------------------------------
(* Claims *)

\* No stored job has the key `title`, ignoring case.
NoJobWithKey(store, title) ==
    \A r \in BagToSet(store) : toLowerCase(r.title) # toLowerCase(title)

\* C1: for a non-empty mapping u and an override map m the builder yields
\* |u| clauses and |u| bound values; clause i names m[key_i] if m has key_i
\* and key_i otherwise, with placeholder $i (counting from 1), and bound
\* value i is u[key_i].  Stated of the builder called on its own with any m,
\* and of the statement Job.update builds, whose m maps companyHandle to
\* company_handle.
C1_BuilderClauses ==
    LET Shaped(u, m, setCols, values) ==
            /\ Len(setCols) = Len(u)
            /\ Len(values) = Len(u)
            /\ \A i \in 1..Len(u) :
                  /\ setCols[i].col = (IF u[i][1] \in DOMAIN m THEN m[u[i][1]] ELSE u[i][1])
                  /\ setCols[i].ph = i
                  /\ values[i] = u[i][2]
    IN  /\ (last.op = "sqlForPartialUpdate" /\ Len(last.args.dataToUpdate) > 0)
            => /\ last.err.name = "none"
               /\ Shaped(last.args.dataToUpdate, last.args.jsToSql,
                         last.ret.setCols, last.ret.values)
        /\ (last.op = "update" /\ Len(last.args.data) > 0)
            => /\ Len(last.stmts) = 1
               /\ Shaped(last.args.data, [companyHandle |-> "company_handle"],
                         last.stmts[1].setCols,
                         SubSeq(last.stmts[1].params, 1, Len(last.args.data)))

\* C1 witness: the builder has run on a mapping of two or more keys, one
\* with an override and one without.
C1_Witness ==
    /\ last.op = "sqlForPartialUpdate"
    /\ last.err.name = "none"
    /\ Len(last.args.dataToUpdate) >= 2
    /\ \E i, j \in 1..Len(last.args.dataToUpdate) :
          /\ last.args.dataToUpdate[i][1] \in DOMAIN last.args.jsToSql
          /\ last.args.dataToUpdate[j][1] \notin DOMAIN last.args.jsToSql

\* C2: Job.update with an empty mapping fails with BadRequestError for every
\* key, sends no statement to the store, and leaves the stored jobs as they
\* were.
C2_EmptyUpdateRejected ==
    [][(last'.op = "update" /\ Len(last'.args.data) = 0)
        => /\ last'.err.name = "BadRequestError"
           /\ last'.stmts = <<>>
           /\ jobs' = jobs]_vars

\* C2 witness: an empty update of a key that a stored job has was rejected.
C2_Witness ==
    /\ last.op = "update"
    /\ Len(last.args.data) = 0
    /\ last.err.name = "BadRequestError"
    /\ ~NoJobWithKey(jobs, last.args.title)

\* C3: Job.update with a non-empty mapping and a key that no stored job has,
\* ignoring case, fails with NotFoundError and changes no stored job.
C3_UpdateNotFound ==
    [][(/\ last'.op = "update"
        /\ Len(last'.args.data) > 0
        /\ NoJobWithKey(jobs, last'.args.title))
        => /\ last'.err.name = "NotFoundError"
           /\ jobs' = jobs]_vars

\* C3 witness: a non-empty update missed while the table held other jobs.
C3_Witness ==
    /\ last.op = "update"
    /\ Len(last.args.data) > 0
    /\ last.err.name = "NotFoundError"
    /\ jobs # EmptyBag

\* The rows findAll returned are exactly the stored jobs of set S, each as
\* often as the table holds it.
ReturnedExactly(S) ==
    /\ last.err.name = "none"
    /\ \A r \in BagToSet(jobs) :
          CopiesIn(Returning(r), last.ret) = (IF r \in S THEN CopiesIn(r, jobs) ELSE 0)
    /\ \A x \in BagToSet(last.ret) : \E r \in BagToSet(jobs) : x = Returning(r)

\* C4: findAll with a minSalary at or above 1,000,000 fails with
\* BadRequestError and returns no rows; with only a minSalary in
\* [0, 1,000,000) it returns exactly the stored jobs whose salary is not
\* below minSalary.  (findAll leaves the table alone, so the table of the
\* state is the one it read.)
C4_MinSalaryFilter ==
    (/\ last.op = "findAll"
     /\ last.args.title.t = "undefined"
     /\ last.args.hasEquity.t = "undefined"
     /\ last.args.minSalary.t = "number"
     /\ last.args.minSalary.v >= 0)
    => IF last.args.minSalary.v >= 1000000
       THEN last.err.name = "BadRequestError" /\ last.stmts = <<>>
       ELSE ReturnedExactly({r \in BagToSet(jobs) : r.salary >= last.args.minSalary.v})

\* C5: findAll with hasEquity absent returns every stored job that passes
\* the other filters, whatever its equity; with "true" exactly those of
\* them with equity > 0; with "false" exactly those with equity = 0.
C5_HasEquityFilter ==
    LET a == last.args
        Others == {r \in BagToSet(jobs) :
                     /\ a.title.t = "undefined" \/ Contains(toLowerCase(r.title), toLowerCase(a.title.v))
                     /\ a.minSalary.t = "undefined" \/ r.salary >= a.minSalary.v}
    IN  (/\ last.op = "findAll"
         /\ a.minSalary.t = "undefined" \/ (a.minSalary.t = "number" /\ a.minSalary.v = 1))
        => /\ a.hasEquity.t = "undefined" => ReturnedExactly(Others)
           /\ (a.hasEquity.t = "string" /\ a.hasEquity.v = "true")
                => ReturnedExactly({r \in Others : r.equity > 0})
           /\ (a.hasEquity.t = "string" /\ a.hasEquity.v = "false")
                => ReturnedExactly({r \in Others : r.equity = 0})

\* C6: a Job.get of x.title issued right after Job.create accepted x returns
\* x: the same title, salary and companyHandle, and the equity of x as a
\* number, not as the store's text.
C6_CreateGetRoundTrip ==
    [][(/\ last.op = "create"
        /\ last.err.name = "none"
        /\ last'.op = "get"
        /\ last'.args.title = last.args.data.title)
        => /\ last'.err.name = "none"
           /\ last'.ret = [title |-> last.args.data.title,
                           salary |-> last.args.data.salary,
                           equity |-> [t |-> "number", v |-> last.args.data.equity],
                           companyHandle |-> last.args.data.companyHandle]]_vars

\* C7: once Job.remove(k) has returned normally no stored job has key k,
\* ignoring case; a Job.get of a key no stored job has fails with
\* NotFoundError; only a create or an update brings a missing key back; and
\* Job.remove of a key no stored job has fails with NotFoundError and
\* removes nothing.
C7_RemoveThenNotFound ==
    [][/\ (last'.op = "remove" /\ last'.err.name = "none")
            => NoJobWithKey(jobs', last'.args.title)
       /\ (last'.op = "get" /\ NoJobWithKey(jobs, last'.args.title))
            => last'.err.name = "NotFoundError"
       /\ \A k \in Keys :
            (NoJobWithKey(jobs, k) /\ last'.op \notin {"create", "update"})
                => NoJobWithKey(jobs', k)
       /\ (last'.op = "remove" /\ NoJobWithKey(jobs, last'.args.title))
            => (last'.err.name = "NotFoundError" /\ jobs' = jobs)]_vars

\* C7 witness: a remove returned normally, so that no job has its key,
\* while another job stayed in the table.
C7_Witness ==
    /\ last.op = "remove"
    /\ last.err.name = "none"
    /\ NoJobWithKey(jobs, last.args.title)
    /\ jobs # EmptyBag

\* C8: every stored job has 0.0 <= equity <= 1.0 and salary >= 0.
C8_DataInvariant ==
    \A r \in BagToSet(jobs) :
        /\ 0 <= r.equity
        /\ r.equity <= 100
        /\ r.salary >= 0

\* C9: Job.create of a job with salary < 0 or equity > 1.0 fails with
\* BadRequestError, the message names a value that is out of range, no
\* INSERT is sent and the stored jobs are unchanged.
C9_CreateRejectsOutOfRange ==
    [][(/\ last'.op = "create"
        /\ (last'.args.data.salary < 0 \/ last'.args.data.equity > 100))
        => /\ last'.err.name = "BadRequestError"
           /\ \/ /\ last'.err.text = "Equity value for job is invalid (<= 1.0): "
                 /\ last'.err.value = last'.args.data.equity
                 /\ last'.args.data.equity > 100
              \/ /\ last'.err.text = "Salary value for job is invalid (>= 0): "
                 /\ last'.err.value = last'.args.data.salary
                 /\ last'.args.data.salary < 0
           /\ \A i \in 1..Len(last'.stmts) : last'.stmts[i].kind # "INSERT"
           /\ jobs' = jobs]_vars

\* C9 witness: a create was rejected for its salary.
C9_Witness ==
    /\ last.op = "create"
    /\ last.args.data.salary < 0
    /\ last.err.name = "BadRequestError"
    /\ last.err.value = last.args.data.salary

\* C10 as stated: Job.create of a job whose title a stored job has,
\* ignoring case, fails with BadRequestError "Duplicate job" and inserts
\* nothing.
C10_DuplicateAlwaysNamed ==
    [][(last'.op = "create" /\ ~NoJobWithKey(jobs, last'.args.data.title))
        => /\ last'.err.name = "BadRequestError"
           /\ last'.err.text = "Duplicate job: "
           /\ jobs' = jobs]_vars

\* C10 amended: such a create fails with BadRequestError and inserts
\* nothing; the error is "Duplicate job" naming the title when the job's
\* equity and salary are in range (else the equity or salary error comes
\* first); and a create repeated right after it succeeded fails and leaves
\* one row with that key.
C10_DuplicateRejected ==
    [][/\ (last'.op = "create" /\ ~NoJobWithKey(jobs, last'.args.data.title))
            => /\ last'.err.name = "BadRequestError"
               /\ \A i \in 1..Len(last'.stmts) : last'.stmts[i].kind # "INSERT"
               /\ jobs' = jobs
               /\ (last'.args.data.equity <= 100 /\ last'.args.data.salary >= 0)
                    => /\ last'.err.text = "Duplicate job: "
                       /\ last'.err.value = last'.args.data.title
       /\ (/\ last.op = "create"
           /\ last.err.name = "none"
           /\ last'.op = "create"
           /\ last'.args = last.args)
            => /\ last'.err.name = "BadRequestError"
               /\ BagCardinality(
                     [r \in {q \in BagToSet(jobs') :
                                toLowerCase(q.title) = toLowerCase(last'.args.data.title)}
                        |-> jobs'[r]]) = 1]_vars

\* C10 witness: a create was rejected as a duplicate of a stored job whose
\* title differs from its own in case only.
C10_Witness ==
    /\ last.op = "create"
    /\ last.err.text = "Duplicate job: "
    /\ \E r \in BagToSet(jobs) :
          /\ r.title # last.args.data.title
          /\ toLowerCase(r.title) = toLowerCase(last.args.data.title)

\* The stored jobs whose title equals k once both are lower-cased.
Matching(store, k) ==
    {r \in BagToSet(store) : toLowerCase(r.title) = toLowerCase(k)}

\* Row r with the fields the mapping u names set to u's values, and every
\* other field as it is.
Applied(r, u) ==
    LET Field(c) == IF c = "company_handle" THEN "companyHandle" ELSE c
    IN  [c \in DOMAIN r |->
            IF \E i \in 1..Len(u) : u[i][1] = Field(c)
            THEN u[CHOOSE i \in 1..Len(u) : u[i][1] = Field(c)][2]
            ELSE r[c]]

\* C12: Job.get, Job.update (with a non-empty mapping) and Job.remove pick
\* their target ignoring case: of every stored job whose lower-cased title
\* is the lower-cased key, get returns that job, update changes it and
\* remove deletes it; a job with another lower-cased title is not returned,
\* changed or deleted.
C12_CaseInsensitiveTarget ==
    [][LET k == last'.args.title
           M == Matching(jobs, k)
           ApplyU(r) == Applied(r, last'.args.data)
       IN  /\ last'.op = "get"
                => /\ jobs' = jobs
                   /\ IF M = {} THEN last'.err.name = "NotFoundError"
                      ELSE /\ last'.err.name = "none"
                           /\ \A r \in M : last'.ret = Returning(r)
           /\ (last'.op = "update" /\ Len(last'.args.data) > 0)
                => IF M = {} THEN jobs' = jobs /\ last'.err.name = "NotFoundError"
                   ELSE /\ last'.err.name = "none"
                        /\ jobs' = Without(jobs, M) (+) BagOfAll(ApplyU, Restrict(jobs, M))
           /\ last'.op = "remove"
                => IF M = {} THEN jobs' = jobs /\ last'.err.name = "NotFoundError"
                   ELSE /\ last'.err.name = "none"
                        /\ jobs' = Without(jobs, M)]_vars

\* C14: a Job.update(k, u) that returns normally changes, in every job
\* matching k, exactly the fields u names, to u's values; a field u does
\* not name keeps its stored value; a job not matching k is unchanged; and
\* the job returned is a stored job as it is after the change.
C14_PartialUpdateFrame ==
    [][(last'.op = "update" /\ last'.err.name = "none")
        => LET u == last'.args.data
               M == Matching(jobs, last'.args.title)
               Named(c) == \E i \in 1..Len(u) :
                              u[i][1] = (IF c = "company_handle" THEN "companyHandle" ELSE c)
               ValueOf(c) == u[CHOOSE i \in 1..Len(u) :
                              u[i][1] = (IF c = "company_handle" THEN "companyHandle" ELSE c)][2]
               After(r) == [c \in DOMAIN r |-> IF Named(c) THEN ValueOf(c) ELSE r[c]]
           IN  /\ M # {}
               /\ \A r \in BagToSet(jobs) \ M : CopiesIn(r, jobs') >= CopiesIn(r, jobs)
               /\ BagCardinality(jobs') = BagCardinality(jobs)
               /\ \A r \in M : CopiesIn(After(r), jobs') >= CopiesIn(r, jobs)
               /\ jobs' = Without(jobs, M) (+) BagOfAll(After, Restrict(jobs, M))
               /\ \E r \in M :
                     /\ last'.ret.title = After(r).title
                     /\ last'.ret.salary = After(r).salary
                     /\ last'.ret.equity.v = After(r).equity
                     /\ last'.ret.companyHandle = After(r).company_handle
                     /\ BagIn(After(r), jobs')]_vars

\* C14 witness: an update naming two fields returned normally; the job it
\* changed kept its equity, which it does not name, and another job, which
\* does not match the key, is still in the table.
C14_Witness ==
    /\ last.op = "update"
    /\ last.err.name = "none"
    /\ Len(last.args.data) = 2
    /\ last.ret.equity.v = 50
    /\ last.ret.salary = 0
    /\ last.ret.companyHandle = "c2"
    /\ \E r \in BagToSet(jobs) : toLowerCase(r.title) # toLowerCase(last.args.title)

\* C18: the statement Job.update sends for a mapping u of n >= 1 fields has
\* the key as its last placeholder: the WHERE uses $(n+1), the bound values
\* are the n values of u in order and then the lower-cased key, every index
\* of 1..n+1 is used by exactly one placeholder, clause i using $i for the
\* i-th value; the text holds column names and placeholders only, no value
\* of u and no part of the key.
C18_KeyIsLastPlaceholder ==
    (last.op = "update" /\ Len(last.args.data) > 0)
    => LET u == last.args.data
           n == Len(u)
           q == last.stmts[1]
           Placeholders == [i \in 1..(n + 1) |->
                               IF i <= n THEN q.setCols[i].ph ELSE q.where]
       IN  /\ Len(last.stmts) = 1
           /\ q.kind = "UPDATE"
           /\ Len(q.setCols) = n
           /\ q.where = n + 1
           /\ Len(q.params) = n + 1
           /\ \A i \in 1..n : q.params[i] = u[i][2]
           /\ q.params[n + 1] = toLowerCase(last.args.title)
           /\ \A i \in 1..(n + 1) : Placeholders[i] = i
           /\ \A i \in 1..(n + 1) :
                 Cardinality({j \in 1..(n + 1) : Placeholders[j] = i}) = 1
           /\ \A i \in 1..n : q.setCols[i].col \in Columns
           /\ DOMAIN q = {"kind", "setCols", "where", "params"}

\* C18 witness: an update of two fields with a key in upper case changed a
\* stored job; its statement binds three values.
C18_Witness ==
    /\ last.op = "update"
    /\ last.err.name = "none"
    /\ Len(last.args.data) = 2
    /\ last.args.title = TitleJA
    /\ Len(last.stmts[1].params) = 3

\* C19: from an empty table, after any sequence of Job.create, Job.update
\* and Job.remove calls made one after the other, no two stored jobs have
\* titles that are equal ignoring case.
C19_KeyUniqueness ==
    \A r \in BagToSet(jobs) :
        BagCardinality(Restrict(jobs, Matching(jobs, r.title))) = 1

\* C17: whatever hasEquity is (absent, empty, "true" or "false" in any
\* letter case, any other string), the predicates compiled for Job.findAll
\* hold exactly one on equity: equity >= 0 for absent and empty, equity > 0
\* for "true", equity = 0 for "false"; so the WHERE text is never empty.
C17_OneEquityClause ==
    (last.op = "findAll" /\ last.err.name = "none")
    => LET f == last.stmts[1].filters
           h == last.args.hasEquity
           OnEquity == {i \in 1..Len(f) : f[i].col = "equity"}
       IN  /\ Cardinality(OnEquity) = 1
           /\ Len(f) >= 1
           /\ (h.t = "undefined" \/ h.v = "")
                => \A i \in OnEquity : f[i].op = ">=" /\ f[i].v = 0
           /\ (h.t = "string" /\ h.v \in {"true", "TRUE"})
                => \A i \in OnEquity : f[i].op = ">" /\ f[i].v = 0
           /\ (h.t = "string" /\ h.v \in {"false", "FALSE"})
                => \A i \in OnEquity : f[i].op = "=" /\ f[i].v = 0

\* The three filters of a findAll call as conditions on a stored job.
TitleOk(a, r) ==
    a.title.t = "undefined" \/ Contains(toLowerCase(r.title), toLowerCase(a.title.v))

SalaryOk(a, r) ==
    \/ a.minSalary.t = "undefined"
    \/ a.minSalary = Num(0)
    \/ r.salary >= a.minSalary.v

EquityOk(a, r) ==
    CASE a.hasEquity.t = "undefined" -> r.equity >= 0
      [] a.hasEquity.v = "" -> r.equity >= 0
      [] a.hasEquity.v = "true" -> r.equity > 0
      [] OTHER -> r.equity = 0

\* C13 as stated: on the jobs job1 (50000, 0), job2 (175000, 1.0) and
\* Engineer (200000, 0.75), findAll(minSalary: 50001, hasEquity: "true")
\* returns exactly job2, and so it does with title "job" added.
C13_ScenarioOnlyJob2 ==
    (/\ last.op = "findAll"
     /\ jobs = ScenarioJobs
     /\ last.args.title.t = "undefined" \/ last.args.title.v = <<"j", "o", "b">>
     /\ last.args.minSalary = Str(50001)
     /\ last.args.hasEquity = Str("true"))
    => ReturnedExactly({Job2})

\* C13 amended: findAll returns exactly the stored jobs that pass all its
\* filters at once: the title filter if given, salary >= minSalary if one
\* other than the number 0 is given, and the equity filter (equity >= 0
\* when hasEquity is absent or empty, > 0 for "true", = 0 for "false").  On job1, job2 and Engineer,
\* findAll(minSalary: 50001, hasEquity: "true") returns job2 and Engineer;
\* with title "job" added it returns exactly job2.
C13_Conjunctive ==
    last.op = "findAll"
    => LET a == last.args
       IN  /\ ReturnedExactly({r \in BagToSet(jobs) :
                                TitleOk(a, r) /\ SalaryOk(a, r) /\ EquityOk(a, r)})
           /\ (/\ jobs = ScenarioJobs
               /\ a.minSalary = Str(50001)
               /\ a.hasEquity = Str("true"))
                => /\ a.title.t = "undefined" => ReturnedExactly({Job2, Engineer})
                   /\ (a.title.t = "string" /\ a.title.v = <<"j", "o", "b">>)
                        => ReturnedExactly({Job2})

\* C13 witness: findAll(minSalary: 50001, hasEquity: "true") has run on
\* job1, job2 and Engineer and returned two jobs.
C13_Witness ==
    /\ last.op = "findAll"
    /\ jobs = ScenarioJobs
    /\ last.args.title.t = "undefined"
    /\ last.args.minSalary = Str(50001)
    /\ last.args.hasEquity = Str("true")
    /\ BagCardinality(last.ret) = 2

C16_CompanyRange ==
    (/\ last.op = "GET /companies"
     /\ last.args.body.minEmployees.t = "number"
     /\ last.args.body.maxEmployees.t = "number")
    => LET lo == last.args.body.minEmployees.v
           hi == last.args.body.maxEmployees.v
           InRange == {c \in companies : lo <= c.num_employees /\ c.num_employees <= hi}
       IN  IF lo > hi
           THEN /\ last.ret.status = 400
                /\ last.err.name = "BadRequestError"
                /\ last.err.text = "Min value is greater than Max value: Min:, Max:"
                /\ last.err.value = <<lo, hi>>
                /\ last.ret.body = Undefined
                /\ last.stmts = <<>>
           ELSE /\ last.ret.status = 200
                /\ last.err.name = "none"
                /\ last.ret.body \subseteq InRange
                /\ last.args.body.name.t = "undefined" => last.ret.body = InRange

\* C16 witness: minEmployees 3 and maxEmployees 2 were rejected while the
\* table held companies with 2 and with 3 employees.
C16_Witness ==
    /\ last.op = "GET /companies"
    /\ last.args.body.minEmployees = Num(3)
    /\ last.args.body.maxEmployees = Num(2)
    /\ last.ret.status = 400
    /\ companies = Companies

\* The number of stored jobs with key k, ignoring case.
CountWithKey(store, k) == BagCardinality(Restrict(store, Matching(store, k)))

\* C11: when two Job.create calls with the same key, ignoring case, have
\* both returned normally, the two overlapped: the second duplicate SELECT
\* ran while the first call was between its SELECT and its INSERT.  Two
\* creates that do not overlap never both succeed.  (That the overlapping
\* run exists, and leaves two jobs with one key, is the witness.)
C11_BothSucceedOnlyIfOverlapping ==
    \A p, q \in Procs :
        (/\ p # q
         /\ calls[p].op = "create" /\ calls[q].op = "create"
         /\ calls[p].pc = "done" /\ calls[q].pc = "done"
         /\ calls[p].out.err.name = "none" /\ calls[q].out.err.name = "none"
         /\ toLowerCase(calls[p].args.data.title) = toLowerCase(calls[q].args.data.title))
        => /\ q \in calls[p].overlap
           /\ p \in calls[q].overlap
           /\ calls[p].rows = {} /\ calls[q].rows = {}
           /\ CountWithKey(jobs, calls[p].args.data.title) >= 2

\* C11 witness: two creates with the same key in different case began on a
\* table without that key, both SELECTs ran before either INSERT, both
\* calls returned normally, and the table holds two jobs with the key.
C11_Witness ==
    \E p, q \in Procs :
        /\ p # q
        /\ calls[p].op = "create" /\ calls[q].op = "create"
        /\ calls[p].pc = "done" /\ calls[q].pc = "done"
        /\ calls[p].out.err.name = "none" /\ calls[q].out.err.name = "none"
        /\ calls[p].args.data.title = TitleJa
        /\ calls[q].args.data.title = TitleJA
        /\ q \in calls[p].overlap
        /\ CountWithKey(start, TitleJa) = 0
        /\ CountWithKey(jobs, TitleJa) = 2

\* Two Job.remove(k), or a Job.remove(k) and a Job.update(k, u), have run
\* concurrently on a table with exactly one job of key k, p's call first:
\* p found the row and succeeded (if it sent a statement at all); q
\* succeeded only if the row was still there under key k (p was an update
\* that kept the key) and failed with NotFoundError otherwise; and in the
\* end no job has key k.  With emptyToo the mapping u may be empty.
WritesResolved(emptyToo) ==
    \A p, q \in Procs :
        (/\ p # q
         /\ calls[p].pc = "done" /\ calls[q].pc = "done"
         /\ calls[p].after = {}
         /\ {calls[p].op, calls[q].op} \in {{"remove"}, {"remove", "update"}}
         /\ calls[p].op = "update" => (emptyToo \/ Len(calls[p].args.data) > 0)
         /\ calls[q].op = "update" => (emptyToo \/ Len(calls[q].args.data) > 0)
         /\ toLowerCase(calls[p].args.title) = toLowerCase(calls[q].args.title)
         /\ CountWithKey(start, calls[p].args.title) = 1)
        => LET k == calls[p].args.title
               u == calls[p].args.data
               KeptKey == /\ calls[p].op = "update"
                          /\ \A i \in 1..Len(u) :
                                u[i][1] = "title" => toLowerCase(u[i][2]) = toLowerCase(k)
           IN  /\ (calls[p].op = "remove" \/ Len(u) > 0)
                    => calls[p].out.err.name = "none"
               /\ IF KeptKey
                  THEN calls[q].out.err.name = "none"
                  ELSE calls[q].out.err.name = "NotFoundError"
               /\ NoJobWithKey(jobs, k)

\* C20 as stated: two Job.remove(k), or a Job.remove(k) and a
\* Job.update(k, u) for any mapping u, run concurrently on a table with
\* exactly one job of key k: in every interleaving the call that finds the
\* row succeeds, a call that runs after the row is gone fails with
\* NotFoundError, no call reports success for a row it did not affect, and
\* in the end no job has key k.
C20_AnyMapping == WritesResolved(TRUE)

\* C20 amended: the same for a non-empty mapping u.  (An update with an
\* empty mapping fails with BadRequestError before any statement, wherever
\* it runs.)
C20_StoreResolvesWrites == WritesResolved(FALSE)

\* C20 witness: two removes of one key, given in different case, ran on a
\* table with one job of that key; the first succeeded and the second
\* failed with NotFoundError.
C20_Witness ==
    \E p, q \in Procs :
        /\ p # q
        /\ calls[p].op = "remove" /\ calls[q].op = "remove"
        /\ calls[p].pc = "done" /\ calls[q].pc = "done"
        /\ calls[p].args.title # calls[q].args.title
        /\ calls[p].after = {}
        /\ q \in calls[p].overlap
        /\ CountWithKey(start, calls[p].args.title) = 1
        /\ calls[p].out.err.name = "none"
        /\ calls[q].out.err.name = "NotFoundError"

====
